---- MODULE Spec2Model ----
(***************************************************************************)
(* Bouncing-balls toy for the Tufty 2040 (src/BALLS.py).                   *)
(*                                                                         *)
(* Floating-point coordinates and velocities are held in fixed point:      *)
(* one pixel is SCALE units, and a product that is not representable is    *)
(* rounded to the nearest unit, as a floating-point product is rounded to  *)
(* the nearest representable value.  Times are held in milliseconds: the   *)
(* code divides ticks_ms() by 1000.0 and compares a difference of seconds  *)
(* with DEBOUNCE_TIME = 0.2, the model compares a difference of            *)
(* milliseconds with 200.                                                  *)
(***************************************************************************)
EXTENDS Integers, Sequences, FiniteSets, TLC

VARIABLES
    balls,            \* the global list `balls` of Ball objects
    created,          \* number of Ball objects constructed so far (object identity)
    last_press_time,  \* global last_press_time, in ms
    ticks,            \* the hardware clock read by time.ticks_ms()
    current_time,     \* run_game's local current_time, in ms
    elapsed,          \* the value of current_time - last_press_time at line 146, in ms
    pressed,          \* the buttons whose is_pressed is true at the poll
    cmd,              \* the branch of the if/elif chain taken in this iteration
    count_shown,      \* the number drawn by the "COUNT: ..." text
    frame,            \* circles drawn into the frame buffer since display.clear()
    pc,               \* where run_game stands
    error,            \* the exception that left run_game, "none" while it runs
    output            \* lines printed to the console

vars == << balls, created, last_press_time, ticks, current_time, elapsed, pressed, cmd,
           count_shown, frame, pc, error, output >>

-----------------------------------------------------------------------------
(* Bounds of the model *)

\* display.get_bounds(): the screen, in pixels.  The panel's size is not set in
\* the source; the model takes a screen a little wider than the largest ball,
\* so that every wall is reached within a few frames.
WIDTH == 40
HEIGHT == 36
\* fixed-point units per pixel
SCALE == 20
\* the clock value at which the model stops following the loop
MaxTime == 520
\* add-hundred is followed only while the list stays within this length
MaxBalls == 204

-----------------------------------------------------------------------------
(* Program constants *)

FRAME_DELAY_MS == 20
DEBOUNCE_TIME == 200
DAMPENING == 95
DAMP_SCALE == 100
MIN_RADIUS == 5
MAX_RADIUS == 15
MAX_SPEED == 4
NUM_PENS == 6
INITIAL_BALLS == 3
ADD_MANY == 100

Buttons == {"up", "down", "left", "right"}

BALL_PENS == 1..NUM_PENS

-----------------------------------------------------------------------------
(* Arithmetic helpers *)

Abs(n) == IF n < 0 THEN -n ELSE n

\* n / d rounded to the nearest integer, symmetric in the sign of n (d > 0)
RoundDiv(n, d) ==
    IF n >= 0 THEN (2 * n + d) \div (2 * d)
    ELSE -((2 * (-n) + d) \div (2 * d))

\* int(v) of a fixed-point value: truncation toward zero, in pixels
ToInt(v) == IF v >= 0 THEN v \div SCALE ELSE -((-v) \div SCALE)

-----------------------------------------------------------------------------
(* Random draws *)

\* random.randint(a, b): any integer of a..b, both ends included
RandInt(a, b) == a..b

\* random.uniform(-4, 4), sampled: both ends, values of magnitude below 1 on
\* either side of zero, zero itself, exactly 1, and values in between
UniformSamples ==
    { -MAX_SPEED * SCALE, -(5 * SCALE) \div 2, -SCALE, -(SCALE \div 2), -1, 0, 1,
      SCALE \div 2, SCALE, 3 * SCALE, MAX_SPEED * SCALE }

\* one call of add_ball consumes one draw of each of the four random values
AllDraws ==
    [ radius : RandInt(MIN_RADIUS, MAX_RADIUS), vx : UniformSamples,
      vy : UniformSamples, pen : BALL_PENS ]

\* the draws followed in the controller loop
DrawList ==
    << [radius |-> MAX_RADIUS, vx |-> -MAX_SPEED * SCALE, vy |-> MAX_SPEED * SCALE, pen |-> 1],
       [radius |-> 10, vx |-> 3 * SCALE, vy |-> -MAX_SPEED * SCALE, pen |-> 3],
       [radius |-> MAX_RADIUS, vx |-> MAX_SPEED * SCALE, vy |-> 0, pen |-> 4],
       [radius |-> MAX_RADIUS, vx |-> -MAX_SPEED * SCALE, vy |-> -(5 * SCALE) \div 2, pen |-> NUM_PENS] >>

\* the draws of count consecutive add_ball calls, starting at entry s of DrawList
BatchDraws(s, count) ==
    [ i \in 1..count |-> DrawList[((s + i - 2) % Len(DrawList)) + 1] ]

-----------------------------------------------------------------------------
(* Ball *)

\* Ball.__init__; id stands for the identity of the constructed object
Ball(id, x, y, radius, vx, vy, pen) ==
    [ id |-> id, x |-> x, y |-> y, radius |-> radius, vx |-> vx, vy |-> vy,
      pen |-> pen, dampening |-> DAMPENING ]

\* v / -dampening: the factor divides instead of multiplying
ReverseDivides(v, dampening) == -RoundDiv(v * DAMP_SCALE, dampening)

\* v * dampening: the minus sign is missing
ReverseNoFlip(v, dampening) == RoundDiv(v * dampening, DAMP_SCALE)

\* v * -1: the bounce without the energy loss
ReverseUndamped(v, dampening) == -v

\* v * -dampening
Reverse(v, dampening) == -RoundDiv(v * dampening, DAMP_SCALE)

\* update that also scales the ball's dampening on every bounce
update_compounds_dampening(b) ==
    LET x1 == b.x + b.vx
        y1 == b.y + b.vy
        r  == b.radius * SCALE
        hitX == x1 - r < 0 \/ x1 + r > WIDTH * SCALE
        hitY == y1 - r < 0 \/ y1 + r > HEIGHT * SCALE
    IN  [ b EXCEPT
            !.x  = IF hitX THEN (IF x1 - r < 0 THEN r ELSE WIDTH * SCALE - r) ELSE x1,
            !.vx = IF hitX THEN Reverse(b.vx, b.dampening) ELSE b.vx,
            !.y  = IF hitY THEN (IF y1 - r < 0 THEN r ELSE HEIGHT * SCALE - r) ELSE y1,
            !.vy = IF hitY THEN Reverse(b.vy, b.dampening) ELSE b.vy,
            !.dampening = IF hitX \/ hitY
                          THEN RoundDiv(b.dampening * DAMPENING, DAMP_SCALE)
                          ELSE b.dampening ]

\* update with the top/bottom test as an elif of the left/right test
update_elif(b) ==
    LET x1 == b.x + b.vx
        y1 == b.y + b.vy
        r  == b.radius * SCALE
        hitX == x1 - r < 0 \/ x1 + r > WIDTH * SCALE
        hitY == ~hitX /\ (y1 - r < 0 \/ y1 + r > HEIGHT * SCALE)
    IN  [ b EXCEPT
            !.x  = IF hitX THEN (IF x1 - r < 0 THEN r ELSE WIDTH * SCALE - r) ELSE x1,
            !.vx = IF hitX THEN Reverse(b.vx, b.dampening) ELSE b.vx,
            !.y  = IF hitY THEN (IF y1 - r < 0 THEN r ELSE HEIGHT * SCALE - r) ELSE y1,
            !.vy = IF hitY THEN Reverse(b.vy, b.dampening) ELSE b.vy ]

\* update without the snap to the boundary
update_no_snap(b) ==
    LET x1 == b.x + b.vx
        y1 == b.y + b.vy
        r  == b.radius * SCALE
        hitX == x1 - r < 0 \/ x1 + r > WIDTH * SCALE
        hitY == y1 - r < 0 \/ y1 + r > HEIGHT * SCALE
    IN  [ b EXCEPT
            !.x  = x1,
            !.vx = IF hitX THEN Reverse(b.vx, b.dampening) ELSE b.vx,
            !.y  = y1,
            !.vy = IF hitY THEN Reverse(b.vy, b.dampening) ELSE b.vy ]

\* Ball.update
update(b) ==
    LET x1 == b.x + b.vx
        y1 == b.y + b.vy
        r  == b.radius * SCALE
        hitX == x1 - r < 0 \/ x1 + r > WIDTH * SCALE
        hitY == y1 - r < 0 \/ y1 + r > HEIGHT * SCALE
    IN  [ b EXCEPT
            !.x  = IF hitX THEN (IF x1 - r < 0 THEN r ELSE WIDTH * SCALE - r) ELSE x1,
            !.vx = IF hitX THEN Reverse(b.vx, b.dampening) ELSE b.vx,
            !.y  = IF hitY THEN (IF y1 - r < 0 THEN r ELSE HEIGHT * SCALE - r) ELSE y1,
            !.vy = IF hitY THEN Reverse(b.vy, b.dampening) ELSE b.vy ]

\* Ball.draw: the circle handed to display.circle
draw(b) ==
    [ id |-> b.id, x |-> ToInt(b.x), y |-> ToInt(b.y), radius |-> b.radius, pen |-> b.pen ]

-----------------------------------------------------------------------------
(* Simulation operations.  sim is [balls, created, error]. *)

\* the draw taken as it comes
FloorSpeedMissing(v) == v

\* if abs(v) < 1: v = 1.0 if v >= 0 else -1.0
FloorSpeed(v) == IF Abs(v) < SCALE THEN (IF v >= 0 THEN SCALE ELSE -SCALE) ELSE v

\* lines 101-117 up to the append: the Ball that add_ball constructs from the
\* draw d, as the id-th object
NewBall(id, d) ==
    LET radius == d.radius
        vx == FloorSpeed(d.vx)
        vy == FloorSpeed(d.vy)
        x == (WIDTH \div 2) * SCALE
        y == (HEIGHT \div 2) * SCALE
        pen == d.pen
    IN  Ball(id, x, y, radius, vx, vy, pen)

\* add_ball that rebuilds the list with every ball back at the centre
add_ball_recentre(sim, d) ==
    [ sim EXCEPT
        !.balls = Append([ i \in 1..Len(sim.balls) |->
                             [ sim.balls[i] EXCEPT !.x = (WIDTH \div 2) * SCALE,
                                                   !.y = (HEIGHT \div 2) * SCALE ] ],
                         NewBall(sim.created + 1, d)),
        !.created = sim.created + 1 ]

add_ball(sim, d) ==
    [ sim EXCEPT
        !.balls = Append(sim.balls, NewBall(sim.created + 1, d)),
        !.created = sim.created + 1 ]

\* list.pop(0): the oldest ball is removed
ListPopFirst(sim) ==
    IF sim.balls = << >>
    THEN [ sim EXCEPT !.error = "IndexError" ]
    ELSE [ sim EXCEPT !.balls = SubSeq(sim.balls, 2, Len(sim.balls)) ]

\* list.pop(): IndexError on an empty list
ListPop(sim) ==
    IF sim.balls = << >>
    THEN [ sim EXCEPT !.error = "IndexError" ]
    ELSE [ sim EXCEPT !.balls = SubSeq(sim.balls, 1, Len(sim.balls) - 1) ]

\* remove_ball without the emptiness test
remove_ball_unchecked(sim) == ListPop(sim)

remove_ball(sim) == IF sim.balls # << >> THEN ListPop(sim) ELSE sim

\* remove_all_balls without `global balls`: a local name is bound instead
remove_all_balls_local(sim) == sim

remove_all_balls(sim) == [ sim EXCEPT !.balls = << >> ]

\* for _ in range(count): add_ball().  The loop is unrolled: its i-th call
\* appends the ball add_ball makes from draws[i] as object created + i.
add_multiple_balls(sim, count, draws) ==
    [ sim EXCEPT
        !.balls = sim.balls \o [ i \in 1..count |-> NewBall(sim.created + i, draws[i]) ],
        !.created = sim.created + count ]

-----------------------------------------------------------------------------
(* Controller loop *)

\* the time one iteration can take, in ms: the sleep of FRAME_DELAY_MS plus
\* the time steps 1-5 took
FrameTimes == { 5 * FRAME_DELAY_MS, 10 * FRAME_DELAY_MS }

\* the clock at the first iteration
StartTicks == { DEBOUNCE_TIME + FRAME_DELAY_MS }

\* the gate compared with the frame delay instead of the debounce window
GateFrameDelay(now, last, up) == (now - last) > FRAME_DELAY_MS

\* the gate with < in place of >
GateInverted(now, last, up) == (now - last) < DEBOUNCE_TIME

\* (current_time - last_press_time) > DEBOUNCE_TIME.  The code compares
\* floating-point seconds: ticks_ms() / 1000.0 and the difference are rounded,
\* so two samples exactly 200 ms apart give a difference just below, equal to
\* or just above 0.2 (0.42 - 0.22 < 0.2 < 0.9 - 0.7).  `up` is that outcome:
\* TRUE when the rounded difference of samples exactly DEBOUNCE_TIME apart
\* exceeds 0.2.  Samples that differ by another whole number of ms compare
\* as their exact difference does.
GatePasses(now, last, up) ==
    \/ (now - last) > DEBOUNCE_TIME
    \/ (now - last) = DEBOUNCE_TIME /\ up

\* the chain with the first two tests in the other order
WinnerDownFirst(p) ==
    IF "down" \in p THEN "remove"
    ELSE IF "up" \in p THEN "add"
    ELSE IF "left" \in p THEN "clear"
    ELSE IF "right" \in p THEN "add_many"
    ELSE "none"

\* the if/elif chain over is_pressed: the branch taken for the buttons p
Winner(p) ==
    IF "up" \in p THEN "add"
    ELSE IF "down" \in p THEN "remove"
    ELSE IF "left" \in p THEN "clear"
    ELSE IF "right" \in p THEN "add_many"
    ELSE "none"

Sim == [ balls |-> balls, created |-> created, error |-> error ]

\* an exception other than KeyboardInterrupt leaves run_game and the program
Resume(sim) == IF sim.error = "none" THEN "render" ELSE "crashed"

SetSim(sim) ==
    /\ balls' = sim.balls
    /\ created' = sim.created
    /\ error' = sim.error
    /\ pc' = Resume(sim)

Init ==
    /\ \E s \in 1..Len(DrawList) :
         LET sim == add_multiple_balls([balls |-> << >>, created |-> 0, error |-> "none"],
                                       INITIAL_BALLS, BatchDraws(s, INITIAL_BALLS))
         IN  /\ balls = sim.balls
             /\ created = sim.created
             /\ error = sim.error
    /\ last_press_time = 0
    /\ ticks \in StartTicks
    /\ current_time = 0
    /\ elapsed = 0
    /\ pressed = {}
    /\ cmd = "none"
    /\ count_shown = 0
    /\ frame = << >>
    /\ pc = "input"
    /\ output = << >>

\* lines 143, 146: the clock is sampled and the gate is closed
GateClosed ==
    /\ pc = "input"
    /\ \E up \in BOOLEAN : ~GatePasses(ticks, last_press_time, up)
    /\ \E p \in SUBSET Buttons : pressed' = p
    /\ current_time' = ticks
    /\ elapsed' = ticks - last_press_time
    /\ cmd' = "none"
    /\ pc' = "render"
    /\ UNCHANGED << balls, created, error, last_press_time, ticks, count_shown, frame, output >>

\* lines 146-158 with no button pressed
PollIdle ==
    /\ pc = "input"
    /\ \E up \in BOOLEAN : GatePasses(ticks, last_press_time, up)
    /\ \E p \in SUBSET Buttons :
         /\ Winner(p) = "none"
         /\ pressed' = p
    /\ current_time' = ticks
    /\ elapsed' = ticks - last_press_time
    /\ cmd' = "none"
    /\ pc' = "render"
    /\ UNCHANGED << balls, created, error, last_press_time, ticks, count_shown, frame, output >>

\* lines 147-149
PollAdd ==
    /\ pc = "input"
    /\ \E up \in BOOLEAN : GatePasses(ticks, last_press_time, up)
    /\ \E p \in SUBSET Buttons, s \in 1..Len(DrawList) :
         /\ Winner(p) = "add"
         /\ pressed' = p
         /\ SetSim(add_ball(Sim, DrawList[s]))
    /\ current_time' = ticks
    /\ elapsed' = ticks - last_press_time
    /\ last_press_time' = ticks
    /\ cmd' = "add"
    /\ UNCHANGED << ticks, count_shown, frame, output >>

\* the remove branch with the timestamp set only when a ball was removed
PollRemoveStampIfRemoved ==
    /\ pc = "input"
    /\ \E up \in BOOLEAN : GatePasses(ticks, last_press_time, up)
    /\ \E p \in SUBSET Buttons :
         /\ Winner(p) = "remove"
         /\ pressed' = p
    /\ SetSim(remove_ball(Sim))
    /\ current_time' = ticks
    /\ elapsed' = ticks - last_press_time
    /\ last_press_time' = IF balls # << >> THEN ticks ELSE last_press_time
    /\ cmd' = "remove"
    /\ UNCHANGED << ticks, count_shown, frame, output >>

\* lines 150-152
PollRemove ==
    /\ pc = "input"
    /\ \E up \in BOOLEAN : GatePasses(ticks, last_press_time, up)
    /\ \E p \in SUBSET Buttons :
         /\ Winner(p) = "remove"
         /\ pressed' = p
    /\ SetSim(remove_ball(Sim))
    /\ current_time' = ticks
    /\ elapsed' = ticks - last_press_time
    /\ last_press_time' = ticks
    /\ cmd' = "remove"
    /\ UNCHANGED << ticks, count_shown, frame, output >>

\* lines 153-155
PollClear ==
    /\ pc = "input"
    /\ \E up \in BOOLEAN : GatePasses(ticks, last_press_time, up)
    /\ \E p \in SUBSET Buttons :
         /\ Winner(p) = "clear"
         /\ pressed' = p
    /\ SetSim(remove_all_balls(Sim))
    /\ current_time' = ticks
    /\ elapsed' = ticks - last_press_time
    /\ last_press_time' = ticks
    /\ cmd' = "clear"
    /\ UNCHANGED << ticks, count_shown, frame, output >>

\* the add-hundred branch taken on a press only: a button that was already
\* down at the previous poll is ignored
PollAddManyOnEdge ==
    /\ pc = "input"
    /\ \E up \in BOOLEAN : GatePasses(ticks, last_press_time, up)
    /\ Len(balls) + ADD_MANY <= MaxBalls
    /\ \E p \in SUBSET Buttons, s \in 1..Len(DrawList) :
         /\ Winner(p) = "add_many"
         /\ pressed' = p
         /\ IF "right" \in pressed
            THEN /\ cmd' = "none"
                 /\ pc' = "render"
                 /\ UNCHANGED << balls, created, error, last_press_time >>
            ELSE /\ SetSim(add_multiple_balls(Sim, ADD_MANY, BatchDraws(s, ADD_MANY)))
                 /\ last_press_time' = ticks
                 /\ cmd' = "add_many"
    /\ current_time' = ticks
    /\ elapsed' = ticks - last_press_time
    /\ UNCHANGED << ticks, count_shown, frame, output >>

\* lines 156-158
PollAddMany ==
    /\ pc = "input"
    /\ \E up \in BOOLEAN : GatePasses(ticks, last_press_time, up)
    /\ Len(balls) + ADD_MANY <= MaxBalls
    /\ \E p \in SUBSET Buttons, s \in 1..Len(DrawList) :
         /\ Winner(p) = "add_many"
         /\ pressed' = p
         /\ SetSim(add_multiple_balls(Sim, ADD_MANY, BatchDraws(s, ADD_MANY)))
    /\ current_time' = ticks
    /\ elapsed' = ticks - last_press_time
    /\ last_press_time' = ticks
    /\ cmd' = "add_many"
    /\ UNCHANGED << ticks, count_shown, frame, output >>

\* lines 161-169: clear the screen, draw the texts and the count
Render ==
    /\ pc = "render"
    /\ frame' = << >>
    /\ count_shown' = Len(balls)
    /\ pc' = "balls"
    /\ UNCHANGED << balls, created, error, last_press_time, ticks, current_time, elapsed,
                    pressed, cmd, output >>

\* the pass with draw() called before update()
DrawThenUpdate ==
    /\ pc = "balls"
    /\ balls' = [ i \in 1..Len(balls) |-> update(balls[i]) ]
    /\ frame' = frame \o [ i \in 1..Len(balls) |-> draw(balls[i]) ]
    /\ pc' = "flush"
    /\ UNCHANGED << created, error, last_press_time, ticks, current_time, elapsed, pressed,
                    cmd, count_shown, output >>

\* lines 172-174: every ball of the list, in order, is updated and then drawn
UpdateAndDraw ==
    /\ pc = "balls"
    /\ balls' = [ i \in 1..Len(balls) |-> update(balls[i]) ]
    /\ frame' = frame \o [ i \in 1..Len(balls) |-> draw(update(balls[i])) ]
    /\ pc' = "flush"
    /\ UNCHANGED << created, error, last_press_time, ticks, current_time, elapsed, pressed,
                    cmd, count_shown, output >>

\* lines 177-178: the frame is pushed and the loop sleeps
FlushAndSleep ==
    /\ pc = "flush"
    /\ \E dt \in FrameTimes :
         /\ ticks + dt <= MaxTime
         /\ ticks' = ticks + dt
    /\ pc' = "input"
    /\ UNCHANGED << balls, created, error, last_press_time, current_time, elapsed, pressed,
                    cmd, count_shown, frame, output >>

\* the interrupt with no except clause around run_game()
InterruptUncaught ==
    /\ pc \in {"input", "render", "balls", "flush"}
    /\ pc' = "crashed"
    /\ error' = "KeyboardInterrupt"
    /\ UNCHANGED << balls, created, last_press_time, ticks, current_time, elapsed,
                    pressed, cmd, count_shown, frame, output >>

\* lines 181-184: KeyboardInterrupt, at any point of the loop
Interrupt ==
    /\ pc \in {"input", "render", "balls", "flush"}
    /\ pc' = "stopped"
    /\ output' = Append(output, "Game stopped.")
    /\ UNCHANGED << balls, created, error, last_press_time, ticks, current_time, elapsed,
                    pressed, cmd, count_shown, frame >>

Next ==
    \/ GateClosed
    \/ PollIdle
    \/ PollAdd
    \/ PollRemove
    \/ PollClear
    \/ PollAddMany
    \/ Render
    \/ UpdateAndDraw
    \/ FlushAndSleep
    \/ Interrupt

Spec == Init /\ [][Next]_vars

-----------------------------------------------------------------------------
(* add_ball alone, over every draw: the state before line 136 and the first
   add_ball call made from it *)

InitCreate ==
    /\ balls = << >>
    /\ created = 0
    /\ error = "none"
    /\ last_press_time = 0
    /\ ticks = 0
    /\ current_time = 0
    /\ elapsed = 0
    /\ pressed = {}
    /\ cmd = "none"
    /\ count_shown = 0
    /\ frame = << >>
    /\ pc = "setup"
    /\ output = << >>

AddFirstBall ==
    /\ pc = "setup"
    /\ balls = << >>
    /\ \E d \in AllDraws :
         LET sim == add_ball(Sim, d)
         IN  /\ balls' = sim.balls
             /\ created' = sim.created
             /\ error' = sim.error
    /\ UNCHANGED << last_press_time, ticks, current_time, elapsed, pressed, cmd, count_shown,
                    frame, pc, output >>

SpecCreate == InitCreate /\ [][AddFirstBall]_vars

-----------------------------------------------------------------------------
(* Vocabulary of the properties *)

\* the input step of an iteration: run_game goes from the clock sample to
\* the render step (or leaves on an exception)
InputStep == pc = "input" /\ pc' \in {"render", "crashed"}

\* the update/draw pass of an iteration
UpdateStep == pc = "balls" /\ pc' = "flush"

Ids(bs) == [ i \in 1..Len(bs) |-> bs[i].id ]

Front(bs) == SubSeq(bs, 1, Len(bs) - 1)

IsPrefix(s, t) == Len(s) <= Len(t) /\ SubSeq(t, 1, Len(s)) = s

-----------------------------------------------------------------------------
\* C1: in every state, every ball's centre is at least its radius away from
\* each edge of the screen: radius <= x <= WIDTH - radius and
\* radius <= y <= HEIGHT - radius, from creation on and after every update.
C1_InBounds ==
    \A i \in 1..Len(balls) :
        LET b == balls[i] IN
        /\ b.radius * SCALE <= b.x
        /\ b.x <= (WIDTH - b.radius) * SCALE
        /\ b.radius * SCALE <= b.y
        /\ b.y <= (HEIGHT - b.radius) * SCALE

\* an update pass has just snapped a ball to the right wall and another (or
\* the same) to the top wall
C1_Witness ==
    /\ pc = "flush"
    /\ \E i \in 1..Len(balls) :
         balls[i].x = (WIDTH - balls[i].radius) * SCALE /\ balls[i].vx < 0
    /\ \E i \in 1..Len(balls) :
         balls[i].y = balls[i].radius * SCALE /\ balls[i].vy > 0

\* C2: when the gate passes and two or more buttons are active, exactly one
\* command runs, the first active one in the order up (add one), down
\* (remove one), left (clear all), right (add hundred); the list changes as
\* that command alone changes it.
C2_OneCommandByPriority ==
    [][ ( /\ InputStep
          /\ ticks - last_press_time > DEBOUNCE_TIME
          /\ Cardinality(pressed') >= 2 )
        => IF "up" \in pressed'
           THEN /\ cmd' = "add"
                /\ Len(balls') = Len(balls) + 1
                /\ IsPrefix(balls, balls')
           ELSE IF "down" \in pressed'
           THEN /\ cmd' = "remove"
                /\ balls' = Front(balls)
           ELSE /\ cmd' = "clear"
                /\ balls' = << >>
      ]_vars

\* down, left and right were held together with the gate open, and remove-one ran
C2_Witness ==
    /\ pc = "render"
    /\ pressed = {"down", "left", "right"}
    /\ cmd = "remove"
    /\ last_press_time = current_time
    /\ Len(balls) = INITIAL_BALLS - 1

\* C3: in an iteration sampled less than 0.2 s after the time stored in
\* last_press_time, no command runs whichever buttons are active: the list,
\* the number of balls created and the timestamp stay as they were.
C3_DebounceBlocks ==
    [][ ( /\ InputStep
          /\ ticks - last_press_time < DEBOUNCE_TIME )
        => /\ cmd' = "none"
           /\ balls' = balls
           /\ created' = created
           /\ last_press_time' = last_press_time
      ]_vars

\* 0.1 s after an accepted command all four buttons are held and nothing runs
C3_Witness ==
    /\ pc = "render"
    /\ last_press_time > 0
    /\ current_time > last_press_time
    /\ current_time - last_press_time < DEBOUNCE_TIME
    /\ elapsed = current_time - last_press_time
    /\ pressed = Buttons
    /\ cmd = "none"

\* C4: the list is a stack in creation order.  add_ball and
\* add_multiple_balls(100) append exactly 1 and exactly 100 new balls after the
\* existing ones, which keep their places; remove_ball on a non-empty list
\* removes exactly the ball created last among those present; so the list is
\* always in strictly increasing creation order and removals undo additions
\* in reverse.
C4_Stack ==
    /\ [][ balls' # balls =>
              /\ \A i \in 1..(Len(balls) - 1) : balls[i].id < balls[i + 1].id
              /\ \A i \in 1..(Len(balls') - 1) : balls'[i].id < balls'[i + 1].id
         ]_vars
    /\ [][ InputStep =>
            /\ cmd' = "add" =>
                 /\ Ids(balls') = Ids(balls) \o << created + 1 >>
                 /\ IsPrefix(balls, balls')
            /\ cmd' = "add_many" =>
                 /\ Ids(balls') = Ids(balls) \o [ k \in 1..ADD_MANY |-> created + k ]
                 /\ IsPrefix(balls, balls')
            /\ (cmd' = "remove" /\ balls # << >>) =>
                 /\ balls' = Front(balls)
                 /\ \A i \in 1..Len(balls) : balls[i].id <= balls[Len(balls)].id
                 /\ \A i \in 1..Len(balls') : balls'[i].id < balls[Len(balls)].id
         ]_vars

\* one ball was added to the three initial ones and the next command removed
\* it again: the three initial balls are back, in order
C4_Witness ==
    /\ pc = "render"
    /\ cmd = "remove"
    /\ created = INITIAL_BALLS + 1
    /\ Ids(balls) = [ k \in 1..INITIAL_BALLS |-> k ]

\* C5: remove_ball on an empty list leaves it empty and raises nothing; no
\* command makes an operation fail, and the count never goes below zero.
C5_RemoveOnEmpty ==
    /\ [] ( error = "none" /\ pc # "crashed" /\ Len(balls) >= 0 )
    /\ [][ ( InputStep /\ cmd' = "remove" /\ balls = << >> )
           => ( balls' = << >> /\ error' = "none" /\ pc' = "render" )
         ]_vars

\* remove-one ran in an iteration that followed one whose count readout was 0
C5_Witness ==
    /\ pc = "render"
    /\ cmd = "remove"
    /\ last_press_time = current_time
    /\ count_shown = 0
    /\ created = INITIAL_BALLS
    /\ balls = << >>
    /\ error = "none"

\* C6: after remove_all_balls the list is empty whatever it held, and the
\* rest of the same iteration works on the empty list: the count readout is
\* 0 and the update/draw pass draws no circle.
C6_ClearEmpties ==
    ( cmd = "clear" /\ pc \in {"render", "balls", "flush"} ) =>
        /\ balls = << >>
        /\ pc \in {"balls", "flush"} => count_shown = 0
        /\ pc = "flush" => frame = << >>

\* clear-all was the command after add-hundred, and its iteration has drawn
C6_Witness ==
    /\ cmd = "clear"
    /\ pc = "flush"
    /\ created = INITIAL_BALLS + ADD_MANY
    /\ count_shown = 0
    /\ frame = << >>
    /\ balls = << >>

\* the velocity w is the velocity v reversed and multiplied by 0.95: opposite
\* sign, and magnitude the representable value nearest to 0.95 * |v|
Damped(v, w) ==
    /\ v * w < 0
    /\ 2 * Abs(DAMP_SCALE * Abs(w) - DAMPENING * Abs(v)) <= DAMP_SCALE

\* C7: in one update, a ball whose step x + vx takes it across the left
\* edge ends with x = radius and vx reversed and multiplied by 0.95; across
\* the right edge with x = WIDTH - radius and vx reversed and damped; the
\* same for y with the top and bottom edges; an axis that crosses no edge
\* keeps its velocity and takes the full step.
C7_Bounce ==
    [][ UpdateStep =>
          /\ Len(balls') = Len(balls)
          /\ \A i \in 1..Len(balls) :
               LET b == balls[i]
                   a == balls'[i]
                   r == b.radius * SCALE
                   left   == b.x + b.vx - r < 0
                   right  == b.x + b.vx + r > WIDTH * SCALE
                   top    == b.y + b.vy - r < 0
                   bottom == b.y + b.vy + r > HEIGHT * SCALE
               IN  /\ left => ( a.x = r /\ Damped(b.vx, a.vx) )
                   /\ right => ( a.x = WIDTH * SCALE - r /\ Damped(b.vx, a.vx) )
                   /\ ~(left \/ right) => ( a.x = b.x + b.vx /\ a.vx = b.vx )
                   /\ top => ( a.y = r /\ Damped(b.vy, a.vy) )
                   /\ bottom => ( a.y = HEIGHT * SCALE - r /\ Damped(b.vy, a.vy) )
                   /\ ~(top \/ bottom) => ( a.y = b.y + b.vy /\ a.vy = b.vy )
      ]_vars

\* after an update pass one ball sits on the left edge moving right with
\* 0.95 of the top speed, and one on the bottom edge moving up
C7_Witness ==
    /\ pc = "flush"
    /\ \E i \in 1..Len(balls) :
         /\ balls[i].x = balls[i].radius * SCALE
         /\ balls[i].vx = RoundDiv(DAMPENING * MAX_SPEED * SCALE, DAMP_SCALE)
    /\ \E i \in 1..Len(balls) :
         /\ balls[i].y = (HEIGHT - balls[i].radius) * SCALE
         /\ balls[i].vy < 0

LoopStep ==
    \/ GateClosed \/ PollIdle \/ PollAdd \/ PollRemove \/ PollClear \/ PollAddMany
    \/ Render \/ UpdateAndDraw \/ FlushAndSleep

\* C9: the loop has no terminal state.  While the program has not been
\* interrupted it stands at one of the four steps of the loop with a next
\* step to take (up to the clock value where the model stops), no exception
\* has left run_game, and nothing has been printed; the stopped state is
\* reached only with the single line "Game stopped." printed.
C9_NoTerminalState ==
    /\ pc \in {"input", "render", "balls", "flush", "stopped"}
    /\ error = "none"
    /\ pc = "stopped" => output = << "Game stopped." >>
    /\ pc # "stopped" =>
         /\ output = << >>
         /\ (pc = "flush" => ticks + 5 * FRAME_DELAY_MS <= MaxTime) => ENABLED LoopStep

\* the program was interrupted in the iteration in which add-hundred ran
C9_Witness ==
    /\ pc = "stopped"
    /\ output = << "Game stopped." >>
    /\ cmd = "add_many"
    /\ Len(balls) >= ADD_MANY
    /\ frame # << >>

\* C10 as stated: an iteration sampled exactly 0.2 s after the last accepted
\* command, with a button active, runs that button's command.
C10_OpensAtWindow ==
    [][ ( /\ InputStep
          /\ last_press_time > 0
          /\ ticks - last_press_time = DEBOUNCE_TIME
          /\ pressed' # {} )
        => ( cmd' # "none" /\ last_press_time' = ticks )
      ]_vars

\* C10 amended: the gate opens when more than 0.2 s have elapsed since the
\* last accepted command: in an iteration sampled more than 0.2 s after it
\* with a button active, that button's command runs and the timestamp is
\* set to the sampled time.
C10_OpensAfterWindow ==
    [][ ( /\ InputStep
          /\ ticks - last_press_time > DEBOUNCE_TIME
          /\ pressed' # {} )
        => ( cmd' # "none" /\ last_press_time' = ticks /\ elapsed' > DEBOUNCE_TIME )
      ]_vars

\* remove-one ran a second time, 0.3 s after the first
C10_Witness ==
    /\ pc = "render"
    /\ elapsed > DEBOUNCE_TIME
    /\ last_press_time = current_time
    /\ pressed = {"down"}
    /\ cmd = "remove"
    /\ Len(balls) = INITIAL_BALLS - 2
    /\ created = INITIAL_BALLS

-----------------------------------------------------------------------------
Min(a, b) == IF a <= b THEN a ELSE b

\* the balls b and c are equal but for the object they are
SameState(b, c) ==
    /\ b.vy = c.vy /\ b.vx = c.vx /\ b.x = c.x /\ b.y = c.y
    /\ b.radius = c.radius /\ b.pen = c.pen /\ b.dampening = c.dampening

\* C11 as stated: in every reachable state each velocity component of every
\* ball has magnitude >= 1.
C11_SpeedAtLeastOne ==
    \A i \in 1..Len(balls) :
        Abs(balls[i].vx) >= SCALE /\ Abs(balls[i].vy) >= SCALE

\* C11 amended: in every reachable state each velocity component of every
\* ball is different from zero (its magnitude is >= 1 at creation and is
\* multiplied by 0.95 on each bounce, so it can be below 1).
C11_NeverZero ==
    \A i \in 1..Len(balls) :
        balls[i].vx # 0 /\ balls[i].vy # 0

\* a ball created with vy = 1.0 has bounced on the bottom edge and moves up
\* at 0.95
C11_Witness ==
    /\ pc = "flush"
    /\ \E i \in 1..Len(balls) :
         /\ balls[i].y = (HEIGHT - balls[i].radius) * SCALE
         /\ balls[i].vy = -RoundDiv(DAMPENING * SCALE, DAMP_SCALE)
         /\ balls[i].vy # 0
         /\ Abs(balls[i].vy) < SCALE

\* C12: no step changes the radius, the pen or the dampening of a ball that
\* stays in the list, and the dampening of every ball is 0.95.
C12_FixedAttributes ==
    [][ balls' # balls =>
          /\ \A i \in 1..Min(Len(balls), Len(balls')) :
               balls'[i].id = balls[i].id =>
                   /\ balls'[i].radius = balls[i].radius
                   /\ balls'[i].pen = balls[i].pen
                   /\ balls'[i].dampening = balls[i].dampening
          /\ \A i \in 1..Len(balls) : balls[i].dampening = DAMPENING
          /\ \A i \in 1..Len(balls') : balls'[i].dampening = DAMPENING
      ]_vars

\* a ball that has bounced on two walls still has its radius, pen and dampening
C12_Witness ==
    /\ pc = "flush"
    /\ \E i \in 1..Len(balls) :
         /\ balls[i].x = balls[i].radius * SCALE /\ balls[i].vx > 0
         /\ Abs(balls[i].vy) < MAX_SPEED * SCALE
         /\ balls[i].radius = MAX_RADIUS
         /\ balls[i].pen = 1
         /\ balls[i].dampening = DAMPENING

\* C13: a command leaves every ball that stays in the list as it was and in
\* its place; the steps other than the update pass leave the list alone; the
\* update pass keeps the balls in their places and gives balls in equal
\* states equal results, so that no ball's update reaches another ball (each
\* ball is compared with the balls up to one round of draws after it, where
\* the balls created in the same state are).
C13_Frame ==
    [][ /\ InputStep =>
             \A i \in 1..Len(balls') :
                 balls'[i].id <= created => ( i <= Len(balls) /\ balls'[i] = balls[i] )
        /\ ~InputStep /\ ~UpdateStep => balls' = balls
        /\ UpdateStep =>
             /\ Ids(balls') = Ids(balls)
             /\ \A i \in 1..Len(balls) :
                  \A j \in (i + 1)..Min(Len(balls), i + Len(DrawList)) :
                      SameState(balls[i], balls[j]) => SameState(balls'[i], balls'[j])
      ]_vars

\* a ball was added to three balls that had already moved and bounced, and
\* they are where they were
C13_Witness ==
    /\ pc = "render"
    /\ cmd = "add"
    /\ created = INITIAL_BALLS + 1
    /\ Len(balls) = INITIAL_BALLS + 1
    /\ balls[1].x # (WIDTH \div 2) * SCALE
    /\ Abs(balls[1].vx) < MAX_SPEED * SCALE
    /\ balls[Len(balls)].x = (WIDTH \div 2) * SCALE

\* C14: in an input step the timestamp becomes the sampled time exactly when
\* the gate passes and a button is active, a remove-one on an empty list
\* included; otherwise the timestamp and the list stay as they were.  (Samples
\* exactly 0.2 s apart pass or fail the gate with the rounding of the
\* difference; every other difference decides it.)  The timestamp never
\* decreases.
C14_Timestamp ==
    [][ /\ InputStep =>
             /\ ( elapsed' > DEBOUNCE_TIME /\ pressed' # {} )
                  => ( last_press_time' = current_time' /\ cmd' # "none" )
             /\ ( elapsed' < DEBOUNCE_TIME \/ pressed' = {} )
                  => ( last_press_time' = last_press_time /\ balls' = balls /\ cmd' = "none" )
             /\ elapsed' = DEBOUNCE_TIME
                  => \/ last_press_time' = current_time' /\ cmd' # "none" /\ pressed' # {}
                     \/ last_press_time' = last_press_time /\ balls' = balls /\ cmd' = "none"
             /\ current_time' = ticks
             /\ elapsed' = current_time' - last_press_time
        /\ ~InputStep => last_press_time' = last_press_time
        /\ last_press_time' >= last_press_time
      ]_vars

\* remove-one won on an empty list 0.3 s after clear-all: no ball changed and
\* a new window started
C14_Witness ==
    /\ pc = "render"
    /\ cmd = "remove"
    /\ pressed = {"down", "right"}
    /\ elapsed > DEBOUNCE_TIME
    /\ last_press_time = current_time
    /\ count_shown = 0
    /\ balls = << >>

\* C15: the steps of an iteration come in the order input, texts and count,
\* update/draw pass, flush and sleep; the count shown is the length of the
\* list after the input step; the pass updates every ball once, then draws
\* it at its updated position, in list order, and keeps the length of the
\* list; so at the flush the frame holds exactly the balls of the list, a
\* ball added in the iteration among them and a removed one not.
C15_StepOrder ==
    [][ /\ pc' # pc =>
             \/ pc' = "stopped"
             \/ << pc, pc' >> \in { << "input", "render" >>, << "render", "balls" >>,
                                   << "balls", "flush" >>, << "flush", "input" >> }
        /\ ( pc = "render" /\ pc' = "balls" ) =>
             ( count_shown' = Len(balls) /\ frame' = << >> /\ balls' = balls )
        /\ UpdateStep =>
             /\ count_shown = Len(balls)
             /\ frame = << >>
             /\ Len(balls') = Len(balls)
             /\ Len(frame') = Len(balls)
             /\ \A i \in 1..Len(balls) :
                  /\ balls'[i].id = balls[i].id
                  /\ balls'[i].x # balls[i].x \/ balls'[i].vx # balls[i].vx
                  /\ balls'[i].y # balls[i].y \/ balls'[i].vy # balls[i].vy
                  /\ frame'[i].id = balls[i].id
                  /\ frame'[i].x = ToInt(balls'[i].x)
                  /\ frame'[i].y = ToInt(balls'[i].y)
                  /\ frame'[i].radius = balls[i].radius
                  /\ frame'[i].pen = balls[i].pen
        /\ ( pc = "flush" /\ pc' = "input" ) =>
             ( ticks' >= ticks + FRAME_DELAY_MS /\ balls' = balls /\ frame' = frame )
      ]_vars

\* at the flush of the iteration that added a ball, the new ball has moved
\* off the centre and is the last circle of the frame, and the count shown
\* includes it
C15_Witness ==
    /\ pc = "flush"
    /\ cmd = "add"
    /\ last_press_time = current_time
    /\ count_shown = Len(balls)
    /\ Len(frame) = Len(balls)
    /\ balls[Len(balls)].id = created
    /\ frame[Len(frame)].id = created
    /\ balls[Len(balls)].x # (WIDTH \div 2) * SCALE
    /\ frame[Len(frame)].x = ToInt(balls[Len(balls)].x)

\* the step of ball b crosses an edge
CrossLeft(b)   == b.x + b.vx - b.radius * SCALE < 0
CrossRight(b)  == b.x + b.vx + b.radius * SCALE > WIDTH * SCALE
CrossTop(b)    == b.y + b.vy - b.radius * SCALE < 0
CrossBottom(b) == b.y + b.vy + b.radius * SCALE > HEIGHT * SCALE

\* C16: in an update the x and vx that result depend on the ball's x, vx
\* and radius only, and the y and vy on its y, vy and radius only: two balls
\* that agree on the inputs of an axis agree on its results, whatever their
\* other axis does (each ball is compared with the balls up to one round of
\* draws after it); and a step that crosses an edge on both axes reverses
\* and damps both velocity components and snaps both coordinates.
C16_AxesIndependent ==
    [][ UpdateStep =>
          \A i \in 1..Len(balls) :
              /\ \A j \in (i + 1)..Min(Len(balls), i + Len(DrawList)) :
                   /\ ( /\ balls[i].x = balls[j].x
                        /\ balls[i].vx = balls[j].vx
                        /\ balls[i].radius = balls[j].radius )
                      => ( balls'[i].x = balls'[j].x /\ balls'[i].vx = balls'[j].vx )
                   /\ ( /\ balls[i].y = balls[j].y
                        /\ balls[i].vy = balls[j].vy
                        /\ balls[i].radius = balls[j].radius )
                      => ( balls'[i].y = balls'[j].y /\ balls'[i].vy = balls'[j].vy )
              /\ ( /\ CrossLeft(balls[i]) \/ CrossRight(balls[i])
                   /\ CrossTop(balls[i]) \/ CrossBottom(balls[i]) )
                 => /\ Damped(balls[i].vx, balls'[i].vx)
                    /\ Damped(balls[i].vy, balls'[i].vy)
                    /\ balls'[i].x \in { balls[i].radius * SCALE,
                                         (WIDTH - balls[i].radius) * SCALE }
                    /\ balls'[i].y \in { balls[i].radius * SCALE,
                                         (HEIGHT - balls[i].radius) * SCALE }
      ]_vars

\* after a pass one ball sits in the top left corner, both components
\* reversed and damped, next to a ball that started with the same x, vx and
\* radius and another vy: it bounced on the left edge alone and has the same
\* x and vx
C16_Witness ==
    /\ pc = "flush"
    /\ \E i, j \in 1..Len(balls) :
         /\ balls[i].x = balls[i].radius * SCALE
         /\ balls[i].y = balls[i].radius * SCALE
         /\ balls[i].vx = RoundDiv(DAMPENING * MAX_SPEED * SCALE, DAMP_SCALE)
         /\ balls[i].vy = RoundDiv(DAMPENING * ((5 * SCALE) \div 2), DAMP_SCALE)
         /\ balls[j].x = balls[i].x
         /\ balls[j].vx = balls[i].vx
         /\ balls[j].radius = balls[i].radius
         /\ balls[j].y # balls[i].y
         /\ balls[j].y # (HEIGHT - balls[j].radius) * SCALE

C18_NoSticking ==
    [][ UpdateStep =>
          \A i \in 1..Len(balls) :
              LET b == balls[i]
                  a == balls'[i]
                  r == b.radius * SCALE
              IN  /\ CrossLeft(b) => ( b.vx < 0 /\ a.vx > 0 )
                  /\ CrossRight(b) => ( b.vx > 0 /\ a.vx < 0 )
                  /\ CrossTop(b) => ( b.vy < 0 /\ a.vy > 0 )
                  /\ CrossBottom(b) => ( b.vy > 0 /\ a.vy < 0 )
                  /\ ~(CrossLeft(b) \/ CrossRight(b)) => ( a.vx > 0 <=> b.vx > 0 )
                  /\ ~(CrossTop(b) \/ CrossBottom(b)) => ( a.vy > 0 <=> b.vy > 0 )
                  /\ ( /\ WIDTH - 2 * b.radius > MAX_SPEED
                       /\ \/ b.x = r /\ b.vx > 0
                          \/ b.x = WIDTH * SCALE - r /\ b.vx < 0 )
                     => ~(CrossLeft(b) \/ CrossRight(b))
                  /\ ( /\ HEIGHT - 2 * b.radius > MAX_SPEED
                       /\ \/ b.y = r /\ b.vy > 0
                          \/ b.y = HEIGHT * SCALE - r /\ b.vy < 0 )
                     => ~(CrossTop(b) \/ CrossBottom(b))
      ]_vars

\* a ball sits on the top edge moving down at 0.95 * 0.95 * 4: it bounced on
\* the bottom edge, crossed the screen without a bounce, and bounced on the top
C18_Witness ==
    /\ pc = "flush"
    /\ \E i \in 1..Len(balls) :
         /\ balls[i].y = balls[i].radius * SCALE
         /\ balls[i].vy =
              RoundDiv(DAMPENING * RoundDiv(DAMPENING * MAX_SPEED * SCALE, DAMP_SCALE),
                       DAMP_SCALE)
         /\ HEIGHT - 2 * balls[i].radius > MAX_SPEED

\* C19: input is level-triggered.  A button set that was active at the
\* previous poll and is still active, unchanged, at a poll more than 0.2 s
\* after the last accepted command has its command run again; held
\* add-hundred adds another 100 balls each time.
C19_LevelTriggered ==
    [][ ( /\ InputStep
          /\ pressed # {}
          /\ pressed' = pressed
          /\ elapsed' > DEBOUNCE_TIME )
        => /\ cmd' # "none"
           /\ last_press_time' = current_time'
           /\ pressed = {"right"} =>
                ( cmd' = "add_many" /\ Len(balls') = Len(balls) + ADD_MANY )
           /\ pressed = {"up"} =>
                ( cmd' = "add" /\ Len(balls') = Len(balls) + 1 )
      ]_vars

\* add-hundred, held, ran a second time 0.3 s after the first: 200 balls
\* have been added to the initial three
C19_Witness ==
    /\ pc = "render"
    /\ cmd = "add_many"
    /\ pressed = {"right"}
    /\ elapsed > DEBOUNCE_TIME
    /\ last_press_time = current_time
    /\ created = INITIAL_BALLS + 2 * ADD_MANY
    /\ Len(balls) = INITIAL_BALLS + 2 * ADD_MANY

====
